---------------------------- MODULE Spec2Model ----------------------------
(***************************************************************************)
(* Operation parameters of strawberryfields (strawberryfields/parameters.py) *)
(* and the frontend contracts its tests and documentation describe.        *)
(*                                                                         *)
(* A parameter is either a plain Python number (the "fixed" kind, kept     *)
(* as-is) or a Sympy expression over MeasuredParameter and FreeParameter   *)
(* atoms.  The Sympy expressions of the model are the linear ones: a       *)
(* canonically ordered sum of terms  coefficient * atom , which is the     *)
(* form Sympy's Add and Mul constructors keep such expressions in (like    *)
(* terms collected, zero terms dropped, arguments sorted).                 *)
(*                                                                         *)
(* Numbers are kept exactly, in halves: re = 3 stands for 1.5.             *)
(***************************************************************************)
EXTENDS Integers, Sequences, FiniteSets, TLC

\* ------------------------------------------------------------------ bounds
NumRefs  == 3   \* RegRef objects that exist
NumModes == 2   \* distinct subsystem indices; RegRef o has index (o-1) % NumModes
NumFree  == 1   \* free parameter names
MaxCoef  == 2   \* largest coefficient (re + im) of an atom in an expression
MaxTerms == 2   \* most terms of an expression
MaxFreeCoef == 1   \* largest coefficient (re + im) of a free parameter
MaxDeleted  == 1   \* most subsystems deleted
MaxMeasured == 2   \* most subsystems measured
MaxParams   == 3   \* most parameters of a parameter sequence

Refs  == 1..NumRefs
Modes == 0..(NumModes - 1)
FreeNames == 1..NumFree

\* RegRef.ind; two RegRef objects of different registers may share an index
ind(o) == (o - 1) % NumModes

\* ----------------------------------------------------------------- numbers
PyNum(t, r, i) == [ty |-> t, re |-> r, im |-> i]
NoneVal     == PyNum("None", 0, 0)
PyInt(n)    == PyNum("int", 2 * n, 0)
PyHalves(h) == PyNum("float", h, 0)
PyComplex(r, i) == PyNum("complex", 2 * r, 2 * i)
\* a NumPy array: its shape and its entries (in halves), row by row
PyArray(shape, data) == [ty |-> "ndarray", shape |-> shape, data |-> data]

\* values a measurement can record in RegRef.val (homodyne: float, Fock: int,
\* heterodyne: complex)
ValChoices == {PyInt(2), PyHalves(3), PyComplex(1, 2)}
\* fixed numeric parameters handed to Operations
FixedChoices ==
  {PyInt(2), PyHalves(3), PyComplex(1, 2),
   PyArray(<<2>>, <<2, 3>>), PyArray(<<2, 2>>, <<2, 0, 0, 2>>)}
\* numeric factors used in arithmetic on symbolic parameters
MulChoices == {PyInt(2), PyComplex(0, 1)}

ParameterError == "ParameterError"
ValueError == "ValueError"
TypeError == "TypeError"
Errors == {ParameterError, ValueError, TypeError}

\* --------------------------------------------------------------- variables
VARIABLES
  val,      \* RegRef.val of every RegRef object: NoneVal or a Python number
  active,   \* RegRef.active
  atomRef,  \* MeasuredParameter named 'q<ind>' of Sympy's symbol cache: its
            \* regref attribute (0: no such atom was constructed yet)
  par,      \* the parameter under construction
  ret,      \* what the last call returned or raised
  tried     \* evaluate(par) raised ParameterError since par was built

parVars == <<val, active, atomRef, par, ret, tried>>

VARIABLES
  circuit,  \* Program.circuit: the Commands in program order
  phase,    \* "build": Operations are applied; "compile"; "done"
  emitted,  \* the compiler's output: positions of circuit in emitted order
  opret,    \* what the last frontend call returned or raised
  merged,   \* the compiler's merge pass: the Commands it has so far
  mpos      \* the compiler's merge pass: Commands of circuit it has taken

progVars == <<circuit, phase, emitted, opret, merged, mpos>>
vars == <<parVars, progVars>>

\* ------------------------------------------------------ Sympy expressions
\* atoms: a MeasuredParameter is named by its index (>= 0), a FreeParameter by
\* the negative of its name; Sympy sorts FreeParameter before MeasuredParameter
\* and equal classes by name
IsMeasuredAtom(a) == a >= 0
FreeAtom(n) == 0 - n
AtomLo == 0 - NumFree
AtomHi == NumModes - 1

Term(a, r, i) == [atom |-> a, re |-> r, im |-> i]
PyPar(x)      == [cls |-> "py", num |-> x, terms |-> << >>]
SymPar(ts)    == [cls |-> "sympy", num |-> NoneVal, terms |-> ts]

RECURSIVE CoefRe(_, _), CoefIm(_, _)
CoefRe(ts, a) ==
  IF ts = << >> THEN 0
  ELSE IF Head(ts).atom = a THEN Head(ts).re ELSE CoefRe(Tail(ts), a)
CoefIm(ts, a) ==
  IF ts = << >> THEN 0
  ELSE IF Head(ts).atom = a THEN Head(ts).im ELSE CoefIm(Tail(ts), a)

\* Add.flatten: one term per atom, zero terms dropped, canonical order
RECURSIVE flatten(_, _, _)
flatten(fre, fim, a) ==
  IF a > AtomHi THEN << >>
  ELSE (IF fre[a] = 0 /\ fim[a] = 0 THEN << >>
        ELSE << Term(a, fre[a], fim[a]) >>) \o flatten(fre, fim, a + 1)

\* p + sign * q of two Sympy expressions
SymAdd(p, q, sign) ==
  SymPar(flatten(
    [a \in AtomLo..AtomHi |-> CoefRe(p.terms, a) + sign * CoefRe(q.terms, a)],
    [a \in AtomLo..AtomHi |-> CoefIm(p.terms, a) + sign * CoefIm(q.terms, a)],
    AtomLo))

\* k * p of a Python number k (a whole number of units) and a Sympy expression
SymMul(k, p) ==
  LET kr == k.re \div 2
      ki == k.im \div 2
  IN SymPar(flatten(
    [a \in AtomLo..AtomHi |-> kr * CoefRe(p.terms, a) - ki * CoefIm(p.terms, a)],
    [a \in AtomLo..AtomHi |-> kr * CoefIm(p.terms, a) + ki * CoefRe(p.terms, a)],
    AtomLo))

\* the expressions the model keeps: coefficients and length within the bounds
RECURSIVE CoefsWithin(_)
CoefsWithin(ts) ==
  IF ts = << >> THEN TRUE
  ELSE /\ Head(ts).re >= 0
       /\ Head(ts).im >= 0
       /\ Head(ts).re + Head(ts).im
            <= (IF IsMeasuredAtom(Head(ts).atom) THEN MaxCoef ELSE MaxFreeCoef)
       /\ CoefsWithin(Tail(ts))
Within(p) == Len(p.terms) <= MaxTerms /\ CoefsWithin(p.terms)

\* the class of the Python object p
ClassOf(p) ==
  IF p.cls = "py" THEN p.num.ty
  ELSE IF p.terms = << >> THEN "Zero"
  ELSE IF Len(p.terms) > 1 THEN "Add"
  ELSE IF p.terms[1].re # 1 \/ p.terms[1].im # 0 THEN "Mul"
  ELSE IF IsMeasuredAtom(p.terms[1].atom) THEN "MeasuredParameter"
  ELSE "FreeParameter"

SympyBasic == {"Zero", "Add", "Mul", "MeasuredParameter", "FreeParameter"}

\* ------------------------------------------------------------ parameters.py
\* (variant: isinstance(p, sympy.Symbol), which misses composite expressions)
is_symbolic_par_symbol_only(p) ==
  ClassOf(p) \in {"MeasuredParameter", "FreeParameter"}

is_symbolic_par(p) == ClassOf(p) \in SympyBasic

\* (variant: only p itself is looked at, not the atoms nested inside it)
atoms_not_nested(ts) ==
  IF Len(ts) = 1 /\ ts[1].re = 1 /\ ts[1].im = 0 /\ IsMeasuredAtom(ts[1].atom)
  THEN {ts[1].atom} ELSE {}

\* p.atoms(MeasuredParameter): every MeasuredParameter of the expression tree
RECURSIVE atoms(_)
atoms(ts) ==
  IF ts = << >> THEN {}
  ELSE (IF IsMeasuredAtom(Head(ts).atom) THEN {Head(ts).atom} ELSE {})
       \cup atoms(Tail(ts))

get_measurement_deps(p) ==
  IF ~ is_symbolic_par(p) THEN {}
  ELSE {atomRef[k] : k \in atoms(p.terms)}

\* (variant: the active flag is not checked at construction)
MeasuredParameter_init_unchecked(o) == "ok"

\* MeasuredParameter.__init__: the error it raises, or "ok"
MeasuredParameter_init(o) == IF ~ active[o] THEN ValueError ELSE "ok"

\* MeasuredParameter._eval_evalf of the atom named k
eval_evalf(k) ==
  LET res == val[atomRef[k]]
  IN IF res = NoneVal THEN PyNum(ParameterError, 0, 0)
     ELSE IF res.ty = "complex" THEN PyNum(TypeError, 0, 0)  \* sympy.Number(complex)
     ELSE PyNum("Number", res.re, 0)

\* p.evalf(): the arguments are evaluated in their canonical order and the
\* first exception ends the evaluation; a FreeParameter has no value and stays
RECURSIVE evalf(_, _)
evalf(ts, acc) ==
  IF ts = << >> THEN acc
  ELSE LET t == Head(ts)
       IN IF ~ IsMeasuredAtom(t.atom)
          THEN evalf(Tail(ts), [acc EXCEPT !.ty = "Expr"])
          ELSE LET v == eval_evalf(t.atom)
               IN IF v.ty \in Errors THEN v
                  ELSE evalf(Tail(ts),
                             [acc EXCEPT !.re = @ + t.re * v.re,
                                         !.im = @ + t.im * v.re])

\* Float.is_integer of a real result: zero is an integer in every Sympy; a
\* nonzero whole Float is one only in a Sympy whose Float.is_integer looks at
\* the value (intValued)
is_integer(n, intValued) == n.re = 0 \/ (intValued /\ n.re % 2 = 0)

\* (variant: the float() conversion is applied to fixed real numbers too)
xxx_converts_fixed(p, intValued) ==
  IF ~ is_symbolic_par(p)
  THEN (IF p.num.ty = "int" THEN PyNum("float", p.num.re, 0) ELSE p.num)
  ELSE LET n == evalf(p.terms, PyNum("Number", 0, 0))
       IN IF n.ty \in Errors THEN n
          ELSE IF n.ty = "Expr" THEN PyNum(TypeError, 0, 0)
          ELSE IF n.im # 0 THEN PyNum("complex", n.re, n.im)
          ELSE IF is_integer(n, intValued) THEN PyNum("int", n.re, 0)
          ELSE PyNum("float", n.re, 0)

\* _evaluate.xxx
xxx(p, intValued) ==
  IF ~ is_symbolic_par(p) THEN p.num
  ELSE LET n == evalf(p.terms, PyNum("Number", 0, 0))
       IN IF n.ty \in Errors THEN n
          ELSE IF n.ty = "Expr" THEN PyNum(TypeError, 0, 0)  \* is_real is None: complex(p)
          ELSE IF n.im # 0 THEN PyNum("complex", n.re, n.im)
          ELSE IF is_integer(n, intValued) THEN PyNum("int", n.re, 0)
          ELSE PyNum("float", n.re, 0)

\* the RegRefs whose val p.evalf() reads: those of the atoms up to the first
\* one that raises
RECURSIVE evalf_reads(_)
evalf_reads(ts) ==
  IF ts = << >> THEN {}
  ELSE LET t == Head(ts)
       IN IF ~ IsMeasuredAtom(t.atom) THEN evalf_reads(Tail(ts))
          ELSE {atomRef[t.atom]} \cup
               (IF eval_evalf(t.atom).ty \in Errors THEN {}
                ELSE evalf_reads(Tail(ts)))

\* the RegRefs whose val xxx(p) reads
xxx_reads(p) == IF ~ is_symbolic_par(p) THEN {} ELSE evalf_reads(p.terms)

\* collections.abc.Sequence among the classes of the model
PySequence == {"list", "tuple"}
PyList(items) == [cls |-> "list", items |-> items]
PyTuple(items) == [cls |-> "tuple", items |-> items]

\* list(map(xxx, params)): the list of the results, or the first exception
RECURSIVE map_xxx(_, _, _)
map_xxx(ps, intValued, acc) ==
  IF ps = << >> THEN PyList(acc)
  ELSE LET r == xxx(Head(ps), intValued)
       IN IF r.ty \in Errors THEN r
          ELSE map_xxx(Tail(ps), intValued, Append(acc, r))

RECURSIVE map_reads(_)
map_reads(ps) ==
  IF ps = << >> THEN {}
  ELSE xxx_reads(Head(ps)) \cup
       (IF xxx(Head(ps), FALSE).ty \in Errors THEN {} ELSE map_reads(Tail(ps)))

\* (variant: the scalar flag is ignored and the list is returned)
evaluate_list_always(params, intValued) ==
  map_xxx(IF params.cls \in PySequence THEN params.items ELSE << params >>,
          intValued, << >>)

\* _evaluate(params): params is a Sequence of parameters or a single parameter
evaluate(params, intValued) ==
  LET scalar == params.cls \notin PySequence
      ret0 == map_xxx(IF scalar THEN << params >> ELSE params.items,
                      intValued, << >>)
  IN IF "items" \notin DOMAIN ret0 THEN ret0   \* an exception
     ELSE IF scalar THEN ret0.items[1]
     ELSE ret0

evaluate_reads(params) ==
  map_reads(IF params.cls \in PySequence THEN params.items ELSE << params >>)

\* ---------------------------------------------------------------- actions
Ret(op, r, arg) == [op |-> op, res |-> r, refs |-> {}, arg |-> arg]

InitPar ==
  /\ val = [o \in Refs |-> NoneVal]
  /\ active = [o \in Refs |-> TRUE]
  /\ atomRef = [k \in Modes |-> 0]
  /\ par = PyPar(PyInt(2))
  /\ ret = Ret("init", NoneVal, 0)
  /\ tried = FALSE

\* the executor records the result of measuring an active subsystem (once)
SetVal(o, v) ==
  /\ val[o] = NoneVal
  /\ active[o]
  /\ Cardinality({r \in Refs : val[r] # NoneVal}) < MaxMeasured
  /\ val' = [val EXCEPT ![o] = v]
  /\ ret' = Ret("measure", NoneVal, 0)
  /\ UNCHANGED <<active, atomRef, par, tried>>
  /\ UNCHANGED progVars

\* the subsystem is deleted
Deactivate(o) ==
  /\ active[o]
  /\ Cardinality({r \in Refs : ~ active[r]}) < MaxDeleted
  /\ active' = [active EXCEPT ![o] = FALSE]
  /\ ret' = Ret("delete", NoneVal, 0)
  /\ UNCHANGED <<val, atomRef, par, tried>>
  /\ UNCHANGED progVars

\* q = MeasuredParameter(regref o): __new__ returns the cached symbol
\* 'q<ind>', __init__ checks regref.active and sets its regref
Construct(o) ==
  IF MeasuredParameter_init(o) = "ok"
  THEN atomRef' = [atomRef EXCEPT ![ind(o)] = o]
  ELSE UNCHANGED atomRef

\* par = MeasuredParameter(o)
NewMeasured(o) ==
  /\ Construct(o)
  /\ IF MeasuredParameter_init(o) = "ok"
     THEN /\ par' = SymPar(<< Term(ind(o), 1, 0) >>)
          /\ ret' = Ret("MeasuredParameter", NoneVal, o)
          /\ tried' = FALSE
     ELSE /\ ret' = Ret("MeasuredParameter", PyNum(ValueError, 0, 0), o)
          /\ UNCHANGED <<par, tried>>
  /\ UNCHANGED <<val, active>>
  /\ UNCHANGED progVars

\* par = FreeParameter(name)
NewFree(n) ==
  /\ par' = SymPar(<< Term(FreeAtom(n), 1, 0) >>)
  /\ ret' = Ret("FreeParameter", NoneVal, n)
  /\ tried' = FALSE
  /\ UNCHANGED <<val, active, atomRef>>
  /\ UNCHANGED progVars

\* par = x, a number
NewFixed(x) ==
  /\ par' = PyPar(x)
  /\ ret' = Ret("fixed", NoneVal, 0)
  /\ tried' = FALSE
  /\ UNCHANGED <<val, active, atomRef>>
  /\ UNCHANGED progVars

\* par = par + MeasuredParameter(o)  or  par - MeasuredParameter(o)
Arith(o, sign) ==
  /\ is_symbolic_par(par)
  /\ Construct(o)
  /\ IF MeasuredParameter_init(o) = "ok"
     THEN LET q == SymAdd(par, SymPar(<< Term(ind(o), 1, 0) >>), sign)
          IN /\ Within(q)
             /\ par' = q
             /\ ret' = Ret("arith", NoneVal, 0)
             /\ tried' = FALSE
     ELSE /\ ret' = Ret("arith", PyNum(ValueError, 0, 0), o)
          /\ UNCHANGED <<par, tried>>
  /\ UNCHANGED <<val, active>>
  /\ UNCHANGED progVars

\* par = par + FreeParameter(n)
ArithFree(n) ==
  /\ is_symbolic_par(par)
  /\ LET q == SymAdd(par, SymPar(<< Term(FreeAtom(n), 1, 0) >>), 1)
     IN /\ Within(q)
        /\ par' = q
  /\ ret' = Ret("arith", NoneVal, 0)
  /\ tried' = FALSE
  /\ UNCHANGED <<val, active, atomRef>>
  /\ UNCHANGED progVars

\* par = k * par; Sympy distributes a real number over a sum and keeps an
\* imaginary factor with a single term
Scale(k) ==
  /\ is_symbolic_par(par)
  /\ k.im # 0 => (Len(par.terms) = 1 /\ par.terms[1].im = 0)
  /\ LET q == SymMul(k, par)
     IN /\ Within(q)
        /\ par' = q
  /\ ret' = Ret("arith", NoneVal, 0)
  /\ tried' = FALSE
  /\ UNCHANGED <<val, active, atomRef>>
  /\ UNCHANGED progVars

\* the parameters put into a sequence
ParChoices ==
  {PyPar(PyHalves(3)), PyPar(PyArray(<<2>>, <<2, 3>>)),
   SymPar(<< Term(FreeAtom(1), 1, 0) >>)}
    \cup {SymPar(<< Term(k, 1, 0) >>) : k \in Modes}

\* par = []  or  par = ()
NewSequence(cls) ==
  /\ par' = [cls |-> cls, items |-> << >>]
  /\ ret' = Ret("sequence", NoneVal, 0)
  /\ tried' = FALSE
  /\ UNCHANGED <<val, active, atomRef>>
  /\ UNCHANGED progVars

\* par = par + [p]  or  par = par + (p,), p a parameter that exists
SeqAppend(p) ==
  /\ par.cls \in PySequence
  /\ Len(par.items) < MaxParams
  /\ \A k \in atoms(p.terms) : atomRef[k] # 0
  /\ par' = [par EXCEPT !.items = Append(@, p)]
  /\ ret' = Ret("sequence", NoneVal, 0)
  /\ tried' = FALSE
  /\ UNCHANGED <<val, active, atomRef>>
  /\ UNCHANGED progVars

\* _evaluate(par): par a single parameter (scalar = True, ret[0] is returned)
\* or a sequence of parameters
Evaluate ==
  /\ \E intValued \in BOOLEAN :
       ret' = [Ret("evaluate", evaluate(par, intValued), 0)
                 EXCEPT !.refs = evaluate_reads(par)]
  /\ tried' = (tried \/ evaluate(par, FALSE) = PyNum(ParameterError, 0, 0))
  /\ UNCHANGED <<val, active, atomRef, par>>
  /\ UNCHANGED progVars

\* get_measurement_deps(par)
GetDeps ==
  /\ ret' = [Ret("get_measurement_deps", NoneVal, 0)
               EXCEPT !.refs = get_measurement_deps(par)]
  /\ UNCHANGED <<val, active, atomRef, par, tried>>
  /\ UNCHANGED progVars

\* is_symbolic_par(par)
IsSymbolic ==
  /\ ret' = Ret("is_symbolic_par",
                PyNum("bool", IF is_symbolic_par(par) THEN 1 ELSE 0, 0), 0)
  /\ UNCHANGED <<val, active, atomRef, par, tried>>
  /\ UNCHANGED progVars

NextPar ==
  \/ \E o \in Refs, v \in ValChoices : SetVal(o, v)
  \/ \E o \in Refs : Deactivate(o)
  \/ \E o \in Refs : NewMeasured(o)
  \/ \E n \in FreeNames : NewFree(n)
  \/ \E x \in FixedChoices : NewFixed(x)
  \/ \E o \in Refs, sign \in {1, -1} : Arith(o, sign)
  \/ \E n \in FreeNames : ArithFree(n)
  \/ \E k \in MulChoices : Scale(k)
  \/ Evaluate
  \/ GetDeps
  \/ IsSymbolic

\* ------------------------------------------- Operations, Commands, Program
\* The frontend (ops.py, engine.py) as its tests and documentation give it:
\* an Operation applied to subsystems becomes a Command of the circuit, and
\* the compiler emits the Commands in an order that respects the circuit graph.
NumSubsystems == 3   \* subsystems of the program's register
MaxCircuit    == 3   \* most Commands of a circuit

Subsystems == 0..(NumSubsystems - 1)
RegRefError == "RegRefError"

\* an Operation: ns subsystems (0: any number), the subsystems whose measured
\* values its parameters depend on (Operation._measurement_deps)
Op(kind, ns, deps) == [kind |-> kind, ns |-> ns, deps |-> deps]
NoOp == Op("none", 0, {})
state_preparations == {Op("Vacuum", 1, {}), Op("Coherent", 1, {})}
All(G) == [G EXCEPT !.ns = 0]
OpChoices ==
  state_preparations
    \cup {All(Op("Vacuum", 1, {})), Op("MeasureX", 1, {}), Op("Gate", 1, {0})}
TargetChoices ==
  {<<a>> : a \in Subsystems} \cup {<<a, b>> : a, b \in Subsystems}

Command(op, reg) == [op |-> op, reg |-> reg]
Targets(c) == {c.reg[i] : i \in 1..Len(c.reg)}
HasDuplicate(reg) == \E i, j \in 1..Len(reg) : i # j /\ reg[i] = reg[j]

\* (variant: repeated subsystems are not rejected)
or_check_no_duplicates(op, reg) ==
  IF op.ns # 0 /\ op.ns # Len(reg) THEN ValueError ELSE "ok"

\* Operation.__or__: the error applying op to reg raises, or "ok"
or_check(op, reg) ==
  IF op.ns # 0 /\ op.ns # Len(reg) THEN ValueError
  ELSE IF HasDuplicate(reg) THEN RegRefError
  ELSE "ok"

\* (variant: the earlier state preparation is kept)
merge_keeps_first(A, B) == A

\* Preparation.merge: the later state preparation replaces the earlier one
merge(A, B) == B

\* the subsystems a Command depends on, and the ones it measures
EffectiveDeps(c) == c.op.deps \cup Targets(c)
Measures(c) == IF c.op.kind = "MeasureX" THEN Targets(c) ELSE {}

\* (variant: the edges point from the later Command to the earlier one)
Edge_reversed(i, j) ==
  /\ i > j
  /\ \/ Targets(circuit[i]) \cap Targets(circuit[j]) # {}
     \/ Measures(circuit[j]) \cap EffectiveDeps(circuit[i]) # {}

\* the circuit graph: an edge from position i to a later position j
Edge(i, j) ==
  /\ i < j
  /\ \/ Targets(circuit[i]) \cap Targets(circuit[j]) # {}
     \/ Measures(circuit[i]) \cap EffectiveDeps(circuit[j]) # {}

Emitted == {emitted[i] : i \in 1..Len(emitted)}
Ready ==
  {j \in (1..Len(circuit)) \ Emitted :
     \A i \in 1..Len(circuit) : Edge(i, j) => i \in Emitted}

\* the Command emitted next: the ready one of the smallest program position
EmitNext == CHOOSE j \in Ready : \A k \in Ready : j <= k

OpRet(op, err, a, b, out, n) ==
  [op |-> op, err |-> err, a |-> a, b |-> b, out |-> out, reg |-> << >>, n |-> n]

InitProg ==
  /\ circuit = << >>
  /\ phase = "build"
  /\ emitted = << >>
  /\ opret = OpRet("init", "ok", NoOp, NoOp, NoOp, 0)
  /\ merged = << >>
  /\ mpos = 0

\* op | reg
Apply(op, reg) ==
  /\ phase = "build"
  /\ Len(circuit) < MaxCircuit
  /\ opret' = [OpRet("apply", or_check(op, reg), op, NoOp, NoOp, Len(circuit))
                 EXCEPT !.reg = reg]
  /\ IF or_check(op, reg) = "ok"
     THEN circuit' = Append(circuit, Command(op, reg))
     ELSE UNCHANGED circuit
  /\ UNCHANGED <<phase, emitted, merged, mpos>>
  /\ UNCHANGED parVars

\* A.merge(B) of two state preparations
Merge(A, B) ==
  /\ phase = "build"
  /\ opret' = OpRet("merge", "ok", A, B, merge(A, B), Len(circuit))
  /\ UNCHANGED <<circuit, phase, emitted, merged, mpos>>
  /\ UNCHANGED parVars

StartCompile ==
  /\ phase = "build"
  /\ phase' = "compile"
  /\ opret' = OpRet("compile", "ok", NoOp, NoOp, NoOp, Len(circuit))
  /\ UNCHANGED <<circuit, emitted, merged, mpos>>
  /\ UNCHANGED parVars

Emit ==
  /\ phase = "compile"
  /\ Len(emitted) < Len(circuit)
  /\ emitted' = Append(emitted, EmitNext)
  /\ UNCHANGED <<circuit, phase, opret, merged, mpos>>
  /\ UNCHANGED parVars

FinishCompile ==
  /\ phase = "compile"
  /\ Len(emitted) = Len(circuit)
  /\ phase' = "done"
  /\ UNCHANGED <<circuit, emitted, opret, merged, mpos>>
  /\ UNCHANGED parVars

\* ------------------------------------------------- the compiler's merge pass
\* a Gate: its subclass and its parameters p[1], p[2], ...
Gate(kind, p) == [kind |-> kind, ns |-> 1, deps |-> {}, p |-> p]
GateKinds == {"Rgate", "Sgate"}
\* what merge gives when it raises MergeFailure
MergeFailure == [kind |-> "MergeFailure"]

\* the Gates of the model: rotations by a number, squeezings by a measured
\* amount with a phase that is a number or a measured value
GateChoices ==
  {Gate("Rgate", << PyPar(x) >>) : x \in {PyInt(1), PyHalves(3)}}
    \cup {Gate("Sgate", << SymPar(<< Term(0, 1, 0) >>), phi >>) :
             phi \in {PyPar(PyInt(2)), PyPar(PyHalves(4)),
                      SymPar(<< Term(1, 1, 0) >>)}}

\* a + b of two Python numbers
PyAdd(x, y) ==
  PyNum(IF "complex" \in {x.ty, y.ty} THEN "complex"
        ELSE IF "float" \in {x.ty, y.ty} THEN "float" ELSE "int",
        x.re + y.re, x.im + y.im)

\* a + b of two parameters (both numbers or both Sympy expressions)
ParAdd(a, b) ==
  IF a.cls = "py" /\ b.cls = "py" THEN PyPar(PyAdd(a.num, b.num))
  ELSE SymAdd(a, b, 1)

\* a == b of two parameters: numbers by value (2 == 2.0), Sympy expressions
\* by structure
ParEq(a, b) ==
  IF a.cls = "py" /\ b.cls = "py"
  THEN a.num.re = b.num.re /\ a.num.im = b.num.im
  ELSE a.cls = b.cls /\ a.terms = b.terms

OthersEqual(A, B) ==
  /\ Len(A.p) = Len(B.p)
  /\ \A i \in 2..Len(A.p) : ParEq(A.p[i], B.p[i])

\* (variant: the other parameters are not compared)
gate_merge_unchecked(A, B) ==
  IF A.kind # B.kind THEN MergeFailure
  ELSE [A EXCEPT !.p[1] = ParAdd(A.p[1], B.p[1])]

\* Gate.merge: the merged Gate, or MergeFailure
gate_merge(A, B) ==
  IF A.kind # B.kind THEN MergeFailure
  ELSE IF ~ OthersEqual(A, B) THEN MergeFailure
  ELSE [A EXCEPT !.p[1] = ParAdd(A.p[1], B.p[1])]

\* position in merged of the last Command on the subsystems of c (0: none)
LastOn(c) ==
  LET S == {i \in 1..Len(merged) : Targets(merged[i]) \cap Targets(c) # {}}
  IN IF S = {} THEN 0 ELSE CHOOSE i \in S : \A j \in S : j <= i

\* the merge pass takes the next Command of the circuit: it is merged into the
\* Command it follows on its subsystem when both are Gates and merge accepts,
\* and kept as a Command of its own otherwise; MergeFailure is not passed on
MergeStep ==
  /\ phase = "compile"
  /\ mpos < Len(circuit)
  /\ LET c == circuit[mpos + 1]
         k == LastOn(c)
         A == IF k = 0 THEN NoOp ELSE merged[k].op
         r == IF k # 0 /\ A.kind \in GateKinds /\ c.op.kind \in GateKinds
              THEN gate_merge(A, c.op) ELSE MergeFailure
     IN /\ merged' = IF r = MergeFailure THEN Append(merged, c)
                     ELSE [merged EXCEPT ![k] = Command(r, c.reg)]
        /\ opret' = [OpRet("gatemerge", "ok", A, c.op,
                           IF r = MergeFailure THEN NoOp ELSE r, Len(merged))
                       EXCEPT !.reg = c.reg]
  /\ mpos' = mpos + 1
  /\ UNCHANGED <<circuit, phase, emitted>>
  /\ UNCHANGED parVars

NextMerge ==
  \/ \E g \in GateChoices, a \in {0, 1} : Apply(g, << a >>)
  \/ StartCompile
  \/ MergeStep

NextProg ==
  \/ \E op \in OpChoices, reg \in TargetChoices : Apply(op, reg)
  \/ \E A, B \in state_preparations : Merge(A, B)
  \/ StartCompile
  \/ Emit
  \/ FinishCompile

\* ---------------------------------------------------------- specifications
\* the merge pass of the compiler over circuits of Gates
Init == InitPar /\ InitProg

\* parameters: construction, arithmetic, measurement, evaluation
Next == NextPar
Spec == Init /\ [][Next]_vars

\* evaluation of parameter sequences
NextSeq ==
  \/ \E o \in Refs, v \in ValChoices : SetVal(o, v)
  \/ \E o \in Refs : NewMeasured(o)
  \/ \E x \in FixedChoices : NewFixed(x)
  \/ \E cls \in PySequence : NewSequence(cls)
  \/ \E p \in ParChoices : SeqAppend(p)
  \/ Evaluate
SpecSeq == Init /\ [][NextSeq]_vars

\* the merge pass of the compiler over circuits of Gates
SpecMerge == Init /\ [][NextMerge]_vars

\* the frontend: applying Operations, merging, compiling
NextP == NextProg
SpecProg == Init /\ [][NextP]_vars

TypeOK ==
  /\ \A o \in Refs : val[o] \in ValChoices \cup {NoneVal}
  /\ \A k \in Modes : atomRef[k] \in Refs \cup {0}
  /\ phase \in {"build", "compile", "done"}

\* ------------------------------------------------------------- properties
MeasuredAtomsOf(p) ==
  {p.terms[i].atom : i \in {j \in 1..Len(p.terms) : IsMeasuredAtom(p.terms[j].atom)}}
FreeAtomsOf(p) ==
  {p.terms[i].atom : i \in {j \in 1..Len(p.terms) : ~ IsMeasuredAtom(p.terms[j].atom)}}
Unresolved(p) == {k \in MeasuredAtomsOf(p) : val[atomRef[k]] = NoneVal}

\* the exact value of an expression whose atoms all have values
RECURSIVE ExactRe(_), ExactIm(_)
ExactRe(ts) ==
  IF ts = << >> THEN 0
  ELSE LET t == Head(ts)
           v == val[atomRef[t.atom]]
       IN t.re * v.re - t.im * v.im + ExactRe(Tail(ts))
ExactIm(ts) ==
  IF ts = << >> THEN 0
  ELSE LET t == Head(ts)
           v == val[atomRef[t.atom]]
       IN t.re * v.im + t.im * v.re + ExactIm(Tail(ts))

\* C1: evaluating an expression that contains a Measured atom whose RegRef has
\* no value raises ParameterError, and no other error or value.
C1_UnsetMeasurementRaisesParameterError ==
  (ret.op = "evaluate" /\ Unresolved(par) # {}) => ret.res.ty = ParameterError

\* C2: once evaluate(p) of a Measured parameter p has failed because the value
\* was not there and the RegRef's value v has been set since, evaluate(p)
\* returns v.
C2_EvaluationFollowsRegRef ==
  (/\ tried
   /\ ret.op = "evaluate"
   /\ ClassOf(par) = "MeasuredParameter"
   /\ Unresolved(par) = {})
  => LET v == val[atomRef[par.terms[1].atom]]
     IN ret.res.ty \notin Errors /\ ret.res.re = v.re /\ ret.res.im = v.im

\* C4: get_measurement_deps(p) is exactly the set of the RegRefs of the
\* Measured atoms in the expression p, however they are nested; Free atoms add
\* nothing, and a parameter that is not symbolic has no dependencies.
C4_DepsAreTheRegRefsOfTheAtoms ==
  ret.op = "get_measurement_deps" =>
    /\ \A r \in Refs :
         r \in ret.refs <=>
           \E i \in 1..Len(par.terms) :
             /\ IsMeasuredAtom(par.terms[i].atom)
             /\ atomRef[par.terms[i].atom] = r
    /\ ret.refs \subseteq Refs
    /\ par.cls = "py" => ret.refs = {}

\* C4, its case: the dependencies of an expression like q0 + 2*q1
C4_Witness ==
  /\ ret.op = "get_measurement_deps"
  /\ Len(par.terms) = 2
  /\ Cardinality(ret.refs) = 2
  /\ \E i \in 1..2 : par.terms[i].re = 2

\* C5: constructing a Measured parameter from an inactive RegRef raises
\* ValueError at once, whether or not the RegRef has a value; from an active
\* RegRef it succeeds, also while the value is not there.
C5_InactiveRegRefRejected ==
  ret.op = "MeasuredParameter" =>
    /\ ~ active[ret.arg] => ret.res.ty = ValueError
    /\ active[ret.arg] =>
         /\ ret.res = NoneVal
         /\ ClassOf(par) = "MeasuredParameter"
         /\ atomRef[ind(ret.arg)] = ret.arg

\* C5, its case: an inactive RegRef that has a value is rejected
C5_Witness ==
  /\ ret.op = "MeasuredParameter"
  /\ ret.res.ty = ValueError
  /\ val[ret.arg] # NoneVal
  /\ \E o \in Refs : active[o] /\ val[o] = NoneVal /\ atomRef[ind(o)] = o

\* C8: when every atom of a symbolic parameter has a value, evaluate returns
\* the value of the expression: a complex if it is not real, otherwise an int
\* if it is whole, otherwise a float.  (For a whole nonzero result an int or a
\* float is accepted here: which of the two Sympy's Float.is_integer gives
\* differs between Sympy versions.)
C8_ThreeWayRule ==
  (/\ ret.op = "evaluate"
   /\ par.cls = "sympy"
   /\ FreeAtomsOf(par) = {}
   /\ Unresolved(par) = {})
  => LET re == ExactRe(par.terms)
         im == ExactIm(par.terms)
     IN IF im # 0 THEN ret.res = PyNum("complex", re, im)
        ELSE IF re % 2 # 0 THEN ret.res = PyNum("float", re, 0)
        ELSE \/ ret.res = PyNum("int", re, 0)
             \/ re # 0 /\ ret.res = PyNum("float", re, 0)

\* C9: evaluating an expression that contains a Free atom without a value
\* raises ParameterError.
C9_UnboundFreeRaisesParameterError ==
  (ret.op = "evaluate" /\ par.cls = "sympy" /\ FreeAtomsOf(par) # {})
  => ret.res.ty = ParameterError

\* C10, as stated: is_symbolic(p) is true exactly when p contains a Measured or
\* Free atom, and false for a value arithmetic has left without any atom.
C10_SymbolicIffContainsAtom ==
  ret.op = "is_symbolic_par" =>
    (ret.res.re = 1 <=> (par.cls = "sympy" /\ par.terms # << >>))

\* C10, amended: is_symbolic(p) is true exactly when p is a Sympy object: for
\* every atom and every expression containing one, and also for the Sympy
\* number that arithmetic on symbolic parameters leaves (q0 - q0); it is false
\* for every plain number.
C10_SymbolicIffSympyObject ==
  ret.op = "is_symbolic_par" =>
    /\ (MeasuredAtomsOf(par) \cup FreeAtomsOf(par)) # {} => ret.res.re = 1
    /\ par.cls = "py" => ret.res.re = 0
    /\ (par.cls = "sympy" /\ par.terms = << >>) => ret.res.re = 1

\* C10, its case: the result of q0 - q0 is asked
C10_Witness ==
  /\ ret.op = "is_symbolic_par"
  /\ ClassOf(par) = "Zero"
  /\ ret.res.re = 1

\* position of the Command at program position j in the emitted order
EmitPos(j) == CHOOSE i \in 1..Len(emitted) : emitted[i] = j

C6_MergeGivesTheLater ==
  opret.op = "merge" => opret.out = opret.b

\* C6, its case: Vacuum merged with a different state preparation
C6_Witness ==
  /\ opret.op = "merge"
  /\ opret.a.kind = "Vacuum"
  /\ opret.b.kind # "Vacuum"
  /\ opret.out.kind = opret.b.kind

\* C7, as stated: a repeated target index raises RegRefError for any
\* Operation, a single-subsystem Operation on more than one index raises
\* ValueError, and a failed application appends no Command.
C7_DuplicateAlwaysRegRefError ==
  opret.op = "apply" =>
    /\ HasDuplicate(opret.reg) => opret.err = RegRefError
    /\ (opret.a.ns = 1 /\ Len(opret.reg) > 1) => opret.err = ValueError
    /\ opret.err # "ok" => Len(circuit) = opret.n

\* C7, amended: a single-subsystem Operation on more than one index raises
\* ValueError, repeated or not; a repeated index raises RegRefError when the
\* Operation takes that many subsystems; a failed application appends no
\* Command and a successful one appends its Command.
C7_CountThenDuplicates ==
  opret.op = "apply" =>
    /\ (opret.a.ns = 1 /\ Len(opret.reg) > 1) => opret.err = ValueError
    /\ (opret.a.ns \in {0, Len(opret.reg)} /\ HasDuplicate(opret.reg))
         => opret.err = RegRefError
    /\ opret.err # "ok" => Len(circuit) = opret.n
    /\ opret.err = "ok" =>
         /\ Len(circuit) = opret.n + 1
         /\ circuit[opret.n + 1] = Command(opret.a, opret.reg)

\* C7, its case: All(G) applied to [0, 0]
C7_Witness ==
  /\ opret.op = "apply"
  /\ opret.a.ns = 0
  /\ opret.reg = <<0, 0>>
  /\ opret.err = RegRefError
  /\ Len(circuit) = opret.n

\* C11: evaluate of a parameter that is not symbolic (a number or an array)
\* returns that very value, of the same type and shape, and reads no RegRef.
C11_FixedPassesThrough ==
  (ret.op = "evaluate" /\ par.cls = "py") =>
    /\ ret.res = par.num
    /\ ret.refs = {}

\* C11, its case: a matrix is evaluated while a measurement result is there
C11_Witness ==
  /\ ret.op = "evaluate"
  /\ par.cls = "py"
  /\ par.num.ty = "ndarray"
  /\ Len(par.num.shape) = 2
  /\ ret.res = par.num
  /\ \E o \in Refs : val[o] # NoneVal

\* a value that is an exception
Raised(r) == "ty" \in DOMAIN r /\ r.ty \in Errors

\* C12: evaluate of a sequence of n parameters returns a sequence of n results,
\* result i being the evaluation of parameter i (when the evaluation of a
\* parameter raises, the call raises the first such exception); evaluate of a
\* single parameter returns its bare result, not a sequence.
C12_SequenceInSequenceOut ==
  ret.op = "evaluate" =>
    \E iv \in BOOLEAN :
      IF par.cls \in PySequence
      THEN LET n == Len(par.items)
               bad == {i \in 1..n : Raised(xxx(par.items[i], iv))}
           IN IF bad = {}
              THEN /\ ret.res.cls \in PySequence
                   /\ Len(ret.res.items) = n
                   /\ \A i \in 1..n : ret.res.items[i] = xxx(par.items[i], iv)
              ELSE \E i \in bad :
                     /\ \A j \in bad : i <= j
                     /\ ret.res = xxx(par.items[i], iv)
      ELSE /\ "items" \notin DOMAIN ret.res
           /\ ret.res = xxx(par, iv)

\* C12, its case: a sequence of three parameters, fixed and measured mixed, of
\* which two give different results
C12_Witness ==
  /\ ret.op = "evaluate"
  /\ par.cls \in PySequence
  /\ Len(par.items) = 3
  /\ par.items[1].cls = "py"
  /\ par.items[2].cls = "sympy"
  /\ "items" \in DOMAIN ret.res
  /\ Len(ret.res.items) = 3
  /\ ret.res.items[2] # ret.res.items[3]

\* c is the sum of the parameters a and b
IsSum(c, a, b) ==
  IF a.cls = "py"
  THEN /\ c.cls = "py"
       /\ c.num.re = a.num.re + b.num.re
       /\ c.num.im = a.num.im + b.num.im
  ELSE /\ c.cls = "sympy"
       /\ \A x \in AtomLo..AtomHi :
            /\ CoefRe(c.terms, x) = CoefRe(a.terms, x) + CoefRe(b.terms, x)
            /\ CoefIm(c.terms, x) = CoefIm(a.terms, x) + CoefIm(b.terms, x)

\* C13: when the merge pass meets a Gate B that follows a Gate A of the same
\* subclass on the same subsystem and their parameters after the first are
\* equal, one Command takes the place of the two: its first parameter is the
\* sum of the first parameters and its other parameters are those of A and B.
\* When a parameter after the first differs, both Commands stay, A before B.
\* No error reaches the caller either way.
C13_GateMergeAddsLeadingParameter ==
  opret.op = "gatemerge" =>
    LET A == opret.a
        B == opret.b
        M == opret.out
    IN /\ opret.err = "ok"
       /\ (A.kind \in GateKinds /\ A.kind = B.kind) =>
            IF \A i \in 2..Len(A.p) : A.p[i] = B.p[i] \/ ParEq(A.p[i], B.p[i])
            THEN /\ M.kind = A.kind
                 /\ Len(M.p) = Len(A.p)
                 /\ IsSum(M.p[1], A.p[1], B.p[1])
                 /\ \A i \in 2..Len(M.p) :
                      ParEq(M.p[i], A.p[i]) /\ ParEq(M.p[i], B.p[i])
                 /\ Len(merged) = opret.n
                 /\ \E k \in 1..Len(merged) : merged[k] = Command(M, opret.reg)
            ELSE /\ M = NoOp
                 /\ Len(merged) = opret.n + 1
                 /\ merged[Len(merged)] = Command(B, opret.reg)
                 /\ \E k \in 1..opret.n : merged[k] = Command(A, opret.reg)

\* C13, its cases: a merge of two squeezings whose phases are equal as numbers
\* (2 and 2.0), after a merge that was rejected
C13_Witness ==
  /\ opret.op = "gatemerge"
  /\ opret.a.kind = "Sgate"
  /\ opret.out.kind = "Sgate"
  /\ opret.a.p[2] # opret.b.p[2]
  /\ opret.out.p[1].terms = << Term(0, 2, 0) >>
  /\ Len(merged) = 2
  /\ merged[1].reg = merged[2].reg

\* C14: a Measured atom keeps the RegRef it was constructed from: no later step
\* (constructing an atom from another RegRef of the same index, a failed
\* construction, a measurement) changes the regref of an atom that exists.
C14_AtomKeepsItsRegRef ==
  [][\A k \in Modes : atomRef[k] # 0 => atomRef'[k] = atomRef[k]]_vars
=============================================================================
